---- MODULE Spec2Model ----
(***************************************************************************)
(* Model of the retrieval engine of rag-qa-bot: the sentence chunker       *)
(* (backend/pdf_processor.py), and the two SimpleRAGSystem classes         *)
(* (backend/simple_rag.py, the one the frontend imports, and               *)
(* backend/rag_simple.py): ingest, search, answer_question, query and      *)
(* get_stats over the three store lists documents / embeddings / metadata. *)
(*                                                                         *)
(* Texts are sequences of one-character strings.  Python lists are         *)
(* sequences; a Python index i is position i + 1 here.  A similarity score *)
(* is kept in percent (cosine * 100), which is exact for the vectors of    *)
(* Vec (all of them have an integer norm).                                 *)
(***************************************************************************)
EXTENDS Integers, Sequences, FiniteSets, TLC

VARIABLES
    impl,        \* which SimpleRAGSystem the session constructed
    documents,   \* self.documents
    embeddings,  \* self.embeddings
    metadata,    \* self.metadata
    result,      \* the last operation and what it returned
    calls,       \* the calls the last operation made, each with how it ended
    ingested,    \* history: some process_document has returned True
    threads,     \* the calls in progress on the object, each with its position
    session,     \* st.session_state of the frontend, and its widgets' values
    served       \* history: what the last click of each button has caused

vars ==
    <<impl, documents, embeddings, metadata, result, calls, ingested, threads,
      session, served>>

store == <<documents, embeddings, metadata>>

(***************************************************************************)
(* Bounds of the model and constants of the program                        *)
(***************************************************************************)
\* Config.CHUNK_SIZE scaled down to the page texts of the model
CHUNK_SIZE == 4

\* Config.TOP_K
TOP_K == 3

\* answer_question's fallback uses relevant_chunks[:3] and chunk['text'][:200]
FALLBACK_SOURCES == 3

FALLBACK_TEXT_LEN == 200

\* the most vectors an embedding response for a document holds
MaxVecs == 2

\* the largest corpus the ranking specification starts from
MaxChunks == 3

\* the most words a page text of the session specification holds
MaxWords == 2

\* the most chunks of a document of the interleaving specification
MaxInterleaveChunks == 2

\* the most entries of qa_history in the frontend specification
MaxHistory == 2

\* the longest page text of the chunker specification
MaxTextLen == 5

\* the largest chunk_size of the chunker specification
MaxChunkSize == 5

Min(a, b) == IF a < b THEN a ELSE b

Max(a, b) == IF a > b THEN a ELSE b

(***************************************************************************)
(* Text helpers (Python str methods and the re calls of load_pdf)          *)
(***************************************************************************)
Whitespace == {" ", "\n"}

Terminal == {".", "!", "?"}

Last(s) == s[Len(s)]

RECURSIVE LStrip(_)
LStrip(t) ==
    IF t # <<>> /\ Head(t) \in Whitespace THEN LStrip(Tail(t)) ELSE t

RECURSIVE RStrip(_)
RStrip(t) ==
    IF t # <<>> /\ Last(t) \in Whitespace
    THEN RStrip(SubSeq(t, 1, Len(t) - 1))
    ELSE t

\* str.strip()
Strip(t) == RStrip(LStrip(t))

\* re.sub(r'\s+', ' ', t)
RECURSIVE CollapseWhitespace(_)
CollapseWhitespace(t) ==
    IF t = <<>> THEN <<>>
    ELSE IF Head(t) \in Whitespace
         THEN <<" ">> \o CollapseWhitespace(LStrip(t))
         ELSE <<Head(t)>> \o CollapseWhitespace(Tail(t))

\* full_text = re.sub(r'\s+', ' ', full_text).strip()
CleanText(t) == Strip(CollapseWhitespace(t))

\* re.split(r'(?<=[.!?])\s+', t): cur is the sentence read so far
RECURSIVE SplitFrom(_, _)
SplitFrom(rest, cur) ==
    IF rest = <<>> THEN <<cur>>
    ELSE IF Head(rest) \in Whitespace /\ cur # <<>> /\ Last(cur) \in Terminal
         THEN <<cur>> \o SplitFrom(LStrip(rest), <<>>)
         ELSE SplitFrom(Tail(rest), Append(cur, Head(rest)))

SplitSentences(t) == SplitFrom(t, <<>>)

\* CloseChunk as "chunks = [current_chunk.strip()]" would work: the chunks
\* closed before are lost
CloseChunkKeepLast(chunks, current_chunk) ==
    IF current_chunk # <<>> THEN <<Strip(current_chunk)>> ELSE chunks

\* a closed chunk is appended only when current_chunk is a non-empty string
CloseChunk(chunks, current_chunk) ==
    IF current_chunk # <<>> THEN Append(chunks, Strip(current_chunk)) ELSE chunks

\* ChunkLoop without the size test: every sentence joins the current chunk
RECURSIVE ChunkLoopGreedy(_, _, _, _)
ChunkLoopGreedy(sentences, current_chunk, chunks, chunk_size) ==
    IF sentences = <<>> THEN CloseChunk(chunks, current_chunk)
    ELSE ChunkLoopGreedy(Tail(sentences), current_chunk \o Head(sentences) \o <<" ">>,
                         chunks, chunk_size)

\* the for loop of load_pdf and the trailing chunk after it
RECURSIVE ChunkLoop(_, _, _, _)
ChunkLoop(sentences, current_chunk, chunks, chunk_size) ==
    IF sentences = <<>> THEN CloseChunk(chunks, current_chunk)
    ELSE LET sentence == Head(sentences) IN
         IF Len(current_chunk) + Len(sentence) < chunk_size
         THEN ChunkLoop(Tail(sentences), current_chunk \o sentence \o <<" ">>,
                        chunks, chunk_size)
         ELSE ChunkLoop(Tail(sentences), sentence \o <<" ">>,
                        CloseChunk(chunks, current_chunk), chunk_size)

\* full_text += text + "\n\n" for every page
RECURSIVE JoinPages(_)
JoinPages(pages) ==
    IF pages = <<>> THEN <<>>
    ELSE Head(pages) \o <<"\n", "\n">> \o JoinPages(Tail(pages))

ChunkText(full_text, chunk_size) ==
    ChunkLoop(SplitSentences(CleanText(full_text)), <<>>, <<>>, chunk_size)

\* SimplePDFProcessor.load_pdf: any exception (no file, unreadable PDF) gives []
load_pdf(file, chunk_size) ==
    IF file.kind # "pdf" THEN <<>>
    ELSE ChunkText(JoinPages(file.pages), chunk_size)

\* SimplePDFProcessor.process_pdf
process_pdf(file, chunk_size) ==
    LET chunks == load_pdf(file, chunk_size) IN
    [chunks |-> chunks, success |-> Len(chunks) > 0]

(***************************************************************************)
(* Vectors and cosine similarity                                           *)
(***************************************************************************)
RECURSIVE SumSeq(_)
SumSeq(s) == IF s = <<>> THEN 0 ELSE Head(s) + SumSeq(Tail(s))

\* np.dot on two 1-d arrays of the same length
Dot(vec1, vec2) == SumSeq([i \in 1..Len(vec1) |-> vec1[i] * vec2[i]])

\* np.linalg.norm: the vectors of the model have integer norms
Norm(vec) ==
    LET sq == Dot(vec, vec) IN CHOOSE r \in 0..sq : r * r = sq

\* CosineBody without the norm guard, a vector taken as identical to itself
CosineBodySelfSimilar(vec1, vec2) ==
    IF Len(vec1) # Len(vec2) THEN [raised |-> TRUE, value |-> 0]
    ELSE IF vec1 = vec2 THEN [raised |-> FALSE, value |-> 100]
    ELSE LET norm1 == Norm(vec1)
             norm2 == Norm(vec2)
         IN IF norm1 = 0 \/ norm2 = 0
            THEN [raised |-> FALSE, value |-> 0]
            ELSE [raised |-> FALSE,
                  value |-> (Dot(vec1, vec2) * 100) \div (norm1 * norm2)]

\* the body of _cosine_similarity, in percent; np.dot raises ValueError on
\* vectors of different lengths
CosineBody(vec1, vec2) ==
    IF Len(vec1) # Len(vec2) THEN [raised |-> TRUE, value |-> 0]
    ELSE LET dot_product == Dot(vec1, vec2)
             norm1 == Norm(vec1)
             norm2 == Norm(vec2)
         IN IF norm1 = 0 \/ norm2 = 0
            THEN [raised |-> FALSE, value |-> 0]
            ELSE [raised |-> FALSE,
                  value |-> (dot_product * 100) \div (norm1 * norm2)]

\* simple_rag.py wraps the body in try/except and returns 0; rag_simple.py
\* lets the exception out
cosine_similarity(which, vec1, vec2) ==
    LET r == CosineBody(vec1, vec2) IN
    IF which = "simple_rag" /\ r.raised
    THEN [raised |-> FALSE, value |-> 0]
    ELSE r

(***************************************************************************)
(* search                                                                  *)
(***************************************************************************)
\* an entry of the call log: the call, how it ended (kind), the vectors a
\* query embedding response held, and a count (vectors or results returned)
Call(name, kind, n, vec) == [call |-> name, kind |-> kind, n |-> n, vec |-> vec]

\* the log entry of search returning
Returned(results) == Call("search", "returned", Len(results), <<>>)

\* InsertDesc as an unstable sort would place x: before the entries of equal score
RECURSIVE InsertDescUnstable(_, _)
InsertDescUnstable(sorted, x) ==
    IF sorted = <<>> THEN <<x>>
    ELSE IF Head(sorted)[2] > x[2]
         THEN <<Head(sorted)>> \o InsertDescUnstable(Tail(sorted), x)
         ELSE <<x>> \o sorted

\* a similarity is <<doc_idx, score>>, doc_idx counted from 0 as in the code.
\* x goes after every entry whose score is at least its own.
RECURSIVE InsertDesc(_, _)
InsertDesc(sorted, x) ==
    IF sorted = <<>> THEN <<x>>
    ELSE IF Head(sorted)[2] >= x[2]
         THEN <<Head(sorted)>> \o InsertDesc(Tail(sorted), x)
         ELSE <<x>> \o sorted

\* similarities.sort(key=lambda x: x[1], reverse=True): list.sort is stable,
\* also with reverse=True
RECURSIVE SortFrom(_, _)
SortFrom(sorted, rest) ==
    IF rest = <<>> THEN sorted
    ELSE SortFrom(InsertDesc(sorted, Head(rest)), Tail(rest))

SortSimilarities(similarities) == SortFrom(<<>>, similarities)

\* s[:k] of a Python list
SliceTo(s, k) ==
    IF k >= 0 THEN SubSeq(s, 1, Min(k, Len(s)))
    ELSE SubSeq(s, 1, Max(0, Len(s) + k))

\* the scoring loop: every stored embedding against the query embedding
Similarities(which, query_embedding, embs) ==
    [i \in 1..Len(embs) |->
        <<i - 1, cosine_similarity(which, query_embedding, embs[i])>>]

\* BuildResults with the chunk's own number as "id" instead of the position
BuildResultsChunkId(top, docs, meta) ==
    IF \E i \in 1..Len(top) : top[i][1] + 1 > Len(docs) \/ top[i][1] + 1 > Len(meta)
    THEN [raised |-> TRUE, results |-> <<>>]
    ELSE [raised |-> FALSE,
          results |-> [i \in 1..Len(top) |->
              [id |-> top[i][1] + 1,
               text |-> docs[top[i][1] + 1],
               score |-> top[i][2],
               metadata |-> meta[top[i][1] + 1]]]]

\* the top-k loop: documents[doc_idx] and metadata[doc_idx] raise IndexError
\* past the end of their lists
BuildResults(top, docs, meta) ==
    IF \E i \in 1..Len(top) : top[i][1] + 1 > Len(docs) \/ top[i][1] + 1 > Len(meta)
    THEN [raised |-> TRUE, results |-> <<>>]
    ELSE [raised |-> FALSE,
          results |-> [i \in 1..Len(top) |->
              [id |-> i,
               text |-> docs[top[i][1] + 1],
               score |-> top[i][2],
               metadata |-> meta[top[i][1] + 1]]]]

\* the try block of search once the query embedding is known
Rank(which, query_embedding, docs, embs, meta, top_k) ==
    LET sims == Similarities(which, query_embedding, embs) IN
    IF \E i \in 1..Len(sims) : sims[i][2].raised
    THEN <<>>
    ELSE LET similarities == [i \in 1..Len(sims) |-> <<sims[i][1], sims[i][2].value>>]
             built == BuildResults(SliceTo(SortSimilarities(similarities), top_k),
                                   docs, meta)
         IN IF built.raised THEN <<>> ELSE built.results

\* SimpleRAGSystem.search: qresp is what co.embed does for the query
search(which, docs, embs, meta, qresp, top_k) ==
    IF embs = <<>> THEN [results |-> <<>>, calls |-> <<Returned(<<>>)>>]
    ELSE LET results ==
                 IF qresp.kind # "ok" THEN <<>>
                 ELSE IF qresp.embeddings = <<>> THEN <<>>
                 ELSE Rank(which, qresp.embeddings[1], docs, embs, meta, top_k)
         IN [results |-> results,
             calls |-> <<Call("embed_query", qresp.kind, Len(qresp.embeddings),
                              qresp.embeddings),
                         Returned(results)>>]

(***************************************************************************)
(* ingest                                                                  *)
(***************************************************************************)
\* self.metadata = [{"source": basename, "chunk_id": i} for i in range(len(chunks))]
NewMetadata(name, chunks) ==
    [i \in 1..Len(chunks) |-> [source |-> name, chunk_id |-> i - 1]]

\* the try block of process_document: resp is what co.embed does for the
\* chunks.  self.documents is assigned before response.embeddings is read.
EmbedAndStore(name, chunks, resp, docs, embs, meta) ==
    IF resp.kind = "raise"
    THEN [ok |-> FALSE, documents |-> docs, embeddings |-> embs, metadata |-> meta]
    ELSE IF resp.kind = "noattr"
    THEN [ok |-> FALSE, documents |-> chunks, embeddings |-> embs, metadata |-> meta]
    ELSE [ok |-> TRUE, documents |-> chunks, embeddings |-> resp.embeddings,
          metadata |-> NewMetadata(name, chunks)]

\* SimpleRAGSystem.process_document (process_pdf of simple_rag.py calls it).
\* simple_rag.py returns early when the file does not exist; in rag_simple.py
\* the missing file makes load_pdf return [].
process_document(which, file, resp, docs, embs, meta) ==
    LET unchanged == [ok |-> FALSE, documents |-> docs, embeddings |-> embs,
                      metadata |-> meta, calls |-> <<>>, chunks |-> <<>>]
        loaded == process_pdf(file, CHUNK_SIZE)
    IN IF which = "simple_rag" /\ file.kind = "missing" THEN unchanged
       ELSE IF ~loaded.success THEN unchanged
       ELSE [calls |-> <<Call("embed_documents", resp.kind, Len(resp.embeddings), <<>>)>>,
             chunks |-> loaded.chunks]
            @@ EmbedAndStore(file.name, loaded.chunks, resp, docs, embs, meta)

(***************************************************************************)
(* answer_question, query, get_stats                                       *)
(***************************************************************************)
\* s[:n] of a Python string
Take(s, n) == SubSeq(s, 1, Min(n, Len(s)))

\* the fallback loop of simple_rag.py: one part per chunk of relevant_chunks[:3]
FallbackParts(relevant_chunks) ==
    LET top == SliceTo(relevant_chunks, FALLBACK_SOURCES) IN
    [i \in 1..Len(top) |->
        [source |-> i, score |-> top[i].score,
         text |-> Take(top[i].text, FALLBACK_TEXT_LEN)]]

\* the generation step of simple_rag.py (co.chat) with its except branch
GenerateChat(relevant_chunks, gen) ==
    IF gen = "ok"
    THEN [status |-> "success", sources |-> relevant_chunks,
          answer |-> [kind |-> "generated", parts |-> <<>>]]
    ELSE [status |-> "fallback", sources |-> relevant_chunks,
          answer |-> [kind |-> "fallback", parts |-> FallbackParts(relevant_chunks)]]

\* the generation step of rag_simple.py (co.generate) with its except branch:
\* the answer is "Error generating answer: " + str(e)
GenerateLegacy(relevant_chunks, gen) ==
    IF gen = "ok"
    THEN [status |-> "success", sources |-> relevant_chunks,
          answer |-> [kind |-> "generated", parts |-> <<>>]]
    ELSE [status |-> "error", sources |-> relevant_chunks,
          answer |-> [kind |-> "raw_error", parts |-> <<>>]]

NoDocuments ==
    [status |-> "no_documents", sources |-> <<>>,
     answer |-> [kind |-> "no_documents_notice", parts |-> <<>>]]

NoResults ==
    [status |-> "no_results", sources |-> <<>>,
     answer |-> [kind |-> "no_results_notice", parts |-> <<>>]]

\* SearchAndGenerate without the "if not relevant_chunks" return
SearchAndGenerateAlways(which, docs, embs, meta, qresp, gen) ==
    LET found == search(which, docs, embs, meta, qresp, TOP_K) IN
    [value |-> IF which = "simple_rag"
               THEN GenerateChat(found.results, gen)
               ELSE GenerateLegacy(found.results, gen),
     calls |-> Append(found.calls, Call("generate", gen, 0, <<>>))]

\* search, then the generation step unless search found nothing
SearchAndGenerate(which, docs, embs, meta, qresp, gen) ==
    LET found == search(which, docs, embs, meta, qresp, TOP_K) IN
    IF found.results = <<>>
    THEN [value |-> NoResults, calls |-> found.calls]
    ELSE [value |-> IF which = "simple_rag"
                    THEN GenerateChat(found.results, gen)
                    ELSE GenerateLegacy(found.results, gen),
          calls |-> Append(found.calls, Call("generate", gen, 0, <<>>))]

\* SimpleRAGSystem.answer_question: only simple_rag.py checks self.documents
answer_question(which, docs, embs, meta, qresp, gen) ==
    IF which = "simple_rag" /\ docs = <<>>
    THEN [value |-> NoDocuments, calls |-> <<>>]
    ELSE SearchAndGenerate(which, docs, embs, meta, qresp, gen)

\* SimpleRAGSystem.get_stats
get_stats(docs, embs) ==
    [documents_loaded |-> Len(docs), embeddings_created |-> Len(embs),
     chunk_size |-> CHUNK_SIZE, top_k |-> TOP_K]

(***************************************************************************)
(* Inputs: files, provider behaviours                                      *)
(***************************************************************************)
\* all sequences over S of length 0..n
SeqsUpTo(S, n) == UNION {[1..k -> S] : k \in 0..n}

RECURSIVE JoinWords(_)
JoinWords(ws) ==
    IF ws = <<>> THEN <<>>
    ELSE IF Len(ws) = 1 THEN Head(ws)
    ELSE Head(ws) \o <<" ">> \o JoinWords(Tail(ws))

\* a page text is made of sentences "a."
Words == {<<"a", ".">>}

\* page texts: up to MaxWords words, and a page of white space only
PageTexts == {JoinWords(ws) : ws \in SeqsUpTo(Words, MaxWords)} \cup {<<" ">>}

FileNames == {"a.pdf", "b.pdf"}

\* a path with no file, a file PyPDF2 cannot read, a PDF of no or one page
Files ==
    [kind : {"missing", "unreadable"}, name : {"a.pdf"}, pages : {<<>>}]
    \cup [kind : {"pdf"}, name : FileNames,
          pages : {<<>>} \cup {<<t>> : t \in PageTexts}]

\* the embedding vectors of the session specification
DocVecs == {<<0, 3, 4>>}

\* the query vectors of the session specification
QueryVecs == {<<0, 1, 0>>, <<0, 3, 4>>}

\* the stored vectors of the ranking specification
Vec == {<<1, 0, 0>>, <<0, 1, 0>>, <<0, 0, 1>>, <<0, 0, 0>>, <<0, 3, 4>>}

\* its query vectors: those, and one of another dimension
RankQueryVecs == Vec \cup {<<1, 0>>}

\* co.embed(texts=chunks): raises, returns an object without .embeddings, or
\* returns any number of vectors
DocResponses(vecs, n) ==
    [kind : {"raise", "noattr"}, embeddings : {<<>>}]
    \cup [kind : {"ok"}, embeddings : SeqsUpTo(vecs, n)]

\* co.embed(texts=[query]): raises, returns an object without .embeddings,
\* returns no vector, or returns one
QueryResponses(vecs) ==
    [kind : {"raise", "noattr", "empty"}, embeddings : {<<>>}]
    \cup [kind : {"ok"}, embeddings : {<<v>> : v \in vecs}]

\* co.chat / co.generate: returns a text, raises, or returns an object the
\* code cannot read the text of (which raises inside the same try block)
GenOutcomes == {"ok", "raise", "malformed"}

\* the top_k values of the ranking specification: negative, zero, up to and
\* past the size of the largest corpus
TopKs == (0 - 2)..(MaxChunks + 1)

\* the provider behaviours of the session specification
SessionDocResponses == DocResponses(DocVecs, MaxVecs)

SessionQueryResponses == QueryResponses(QueryVecs)

Impls == {"simple_rag", "rag_simple"}

\* Python's None where a file is expected, and where an answer is
NoFile == [kind |-> "none", name |-> "", pages |-> <<>>]

NoAnswer == [kind |-> "none", parts |-> <<>>]

\* init_session_state, with the file uploader and the question text area as
\* Streamlit creates them; rerun is TRUE while a st.rerun() is to be served
InitSession ==
    [processed_files |-> <<>>, qa_history |-> <<>>, processing_complete |-> FALSE,
     current_answer |-> NoAnswer, current_sources |-> <<>>,
     should_process |-> FALSE, should_answer |-> FALSE,
     uploaded_file_path |-> NoFile, current_question |-> "",
     file_uploader |-> NoFile, question_input |-> "", rerun |-> FALSE]

\* no button has been clicked: the backend calls and the history entries
\* counted since the last click of Process and of Get Answer
NoneServed == [process_pdf |-> 0, answer_question |-> 0, qa_history |-> 0]

\* no call is in progress
NoThreads == [ingest |-> [pc |-> "idle"], search |-> [pc |-> "idle"]]

(***************************************************************************)
(* The session: state after construction, and one action per operation     *)
(***************************************************************************)
Init ==
    /\ impl \in Impls
    /\ documents = <<>>
    /\ embeddings = <<>>
    /\ metadata = <<>>
    /\ result = [op |-> "none"]
    /\ calls = <<>>
    /\ ingested = FALSE
    /\ threads = NoThreads
    /\ session = InitSession
    /\ served = NoneServed

ProcessDocumentWith(file, resp) ==
    LET r == process_document(impl, file, resp, documents, embeddings, metadata) IN
    /\ documents' = r.documents
    /\ embeddings' = r.embeddings
    /\ metadata' = r.metadata
    /\ result' = [op |-> "process_document", chunks |-> r.chunks, value |-> r.ok]
    /\ calls' = r.calls
    /\ ingested' = (ingested \/ r.ok)
    /\ UNCHANGED <<impl, threads, session, served>>

SearchWith(qresp, top_k) ==
    LET r == search(impl, documents, embeddings, metadata, qresp, top_k) IN
    /\ result' = [op |-> "search", top_k |-> top_k, value |-> r.results]
    /\ calls' = r.calls
    /\ UNCHANGED <<impl, documents, embeddings, metadata, ingested, threads, session, served>>

\* AnswerQuestionWith as an answer_question that empties the store would act
AnswerQuestionClearing(qresp, gen) ==
    LET r == answer_question(impl, documents, embeddings, metadata, qresp, gen) IN
    /\ result' = [op |-> "answer_question", value |-> r.value]
    /\ calls' = r.calls
    /\ documents' = <<>>
    /\ embeddings' = <<>>
    /\ metadata' = <<>>
    /\ UNCHANGED <<impl, ingested, threads, session, served>>

AnswerQuestionWith(qresp, gen) ==
    LET r == answer_question(impl, documents, embeddings, metadata, qresp, gen) IN
    /\ result' = [op |-> "answer_question", value |-> r.value]
    /\ calls' = r.calls
    /\ UNCHANGED <<impl, documents, embeddings, metadata, ingested, threads, session, served>>

\* SimpleRAGSystem.query (simple_rag.py only): result.get("answer", ...)
QueryWith(qresp, gen) ==
    LET r == answer_question(impl, documents, embeddings, metadata, qresp, gen) IN
    /\ impl = "simple_rag"
    /\ result' = [op |-> "query", value |-> r.value.answer]
    /\ calls' = r.calls
    /\ UNCHANGED <<impl, documents, embeddings, metadata, ingested, threads, session, served>>

GetStats ==
    /\ result' = [op |-> "get_stats", value |-> get_stats(documents, embeddings)]
    /\ calls' = <<>>
    /\ UNCHANGED <<impl, documents, embeddings, metadata, ingested, threads, session, served>>

ProcessDocument ==
    \E file \in Files, resp \in SessionDocResponses :
        ProcessDocumentWith(file, resp)

\* search(question) as answer_question calls it: top_k is Config.TOP_K
SearchDefault ==
    \E qresp \in SessionQueryResponses : SearchWith(qresp, TOP_K)

AnswerQuestion ==
    \E qresp \in SessionQueryResponses, gen \in GenOutcomes :
        AnswerQuestionWith(qresp, gen)

Query ==
    \E qresp \in SessionQueryResponses, gen \in GenOutcomes : QueryWith(qresp, gen)

Next ==
    \/ ProcessDocument
    \/ SearchDefault
    \/ AnswerQuestion
    \/ Query
    \/ GetStats

Spec == Init /\ [][Next]_vars

(***************************************************************************)
(* The ranking specification: one call of search on every store of up to   *)
(* MaxChunks chunks, with every query behaviour and every top_k of TopKs.  *)
(* A store is the empty store of a new session, or the store after one     *)
(* ingest of a document of n sentences, for which the provider returned    *)
(* any number of vectors of Vec.                                           *)
(***************************************************************************)
RankFile(n) ==
    [kind |-> "pdf", name |-> "a.pdf",
     pages |-> <<JoinWords([i \in 1..n |-> <<"a", ".">>])>>]

RankDocResponses == DocResponses(Vec, MaxChunks)

RankQueryResponses == QueryResponses(RankQueryVecs)

InitRank ==
    /\ impl \in Impls
    /\ \/ /\ documents = <<>>
          /\ embeddings = <<>>
          /\ metadata = <<>>
          /\ ingested = FALSE
       \/ \E n \in 1..MaxChunks, resp \in RankDocResponses :
             LET r == process_document(impl, RankFile(n), resp, <<>>, <<>>, <<>>) IN
             /\ r.ok
             /\ documents = r.documents
             /\ embeddings = r.embeddings
             /\ metadata = r.metadata
             /\ ingested = TRUE
    /\ result = [op |-> "none"]
    /\ calls = <<>>
    /\ threads = NoThreads
    /\ session = InitSession
    /\ served = NoneServed

Search ==
    \E qresp \in RankQueryResponses, top_k \in TopKs : SearchWith(qresp, top_k)

\* one call per behaviour
NextRank == result.op = "none" /\ Search

SpecRank == InitRank /\ [][NextRank]_vars

(***************************************************************************)
(* The chunker specification: one call of load_pdf on a one-page PDF, for   *)
(* every page text of up to MaxTextLen characters and every chunk_size of  *)
(* 1..MaxChunkSize.                                                        *)
(***************************************************************************)
\* the characters of a page text: a letter, a sentence end, white space
Chars == {"a", ".", " ", "\n"}

ChunkTexts == SeqsUpTo(Chars, MaxTextLen)

ChunkSizes == 1..MaxChunkSize

\* SimplePDFProcessor(chunk_size).load_pdf(path of a PDF with the one page)
LoadPdfWith(page, chunk_size) ==
    LET file == [kind |-> "pdf", name |-> "a.pdf", pages |-> <<page>>] IN
    /\ result' = [op |-> "load_pdf",
                  text |-> CleanText(JoinPages(file.pages)),
                  chunk_size |-> chunk_size,
                  value |-> load_pdf(file, chunk_size)]
    /\ calls' = <<>>
    /\ UNCHANGED <<impl, documents, embeddings, metadata, ingested, threads, session, served>>

LoadPdf ==
    \E page \in ChunkTexts, chunk_size \in ChunkSizes : LoadPdfWith(page, chunk_size)

InitChunk == Init /\ impl = "simple_rag"

\* one call per input
NextChunk == result.op = "none" /\ LoadPdf

SpecChunk == InitChunk /\ [][NextChunk]_vars

(***************************************************************************)
(* The interleaving specification: one process_document call and one       *)
(* search call on the same object, each taken one attribute access at a    *)
(* time (the class holds no lock).  The object starts empty or after the   *)
(* ingest of a document "a.pdf"; the call ingests "b.pdf", and the         *)
(* embedding provider keeps its contract: it raises or returns one vector  *)
(* per text.                                                               *)
(***************************************************************************)
InterleaveVecs == {<<1, 0, 0>>, <<0, 1, 0>>}

\* a PDF of n sentences, every sentence a chunk of its own
InterleaveFile(name, word, n) ==
    [kind |-> "pdf", name |-> name, pages |-> <<JoinWords([i \in 1..n |-> word])>>]

OldFiles == {InterleaveFile("a.pdf", <<"a", ".">>, n) : n \in 1..MaxInterleaveChunks}

NewFiles == {InterleaveFile("b.pdf", <<"a", "a", ".">>, n) : n \in 1..MaxInterleaveChunks}

\* co.embed on n texts: raises, or returns n vectors
ConformingDocResponses(n) ==
    {[kind |-> "raise", embeddings |-> <<>>]}
    \cup [kind : {"ok"}, embeddings : [1..n -> InterleaveVecs]]

InterleaveQueryResponses ==
    {[kind |-> "raise", embeddings |-> <<>>]}
    \cup [kind : {"ok"}, embeddings : {<<v>> : v \in InterleaveVecs}]

InitInterleave ==
    /\ impl \in Impls
    /\ \/ /\ documents = <<>>
          /\ embeddings = <<>>
          /\ metadata = <<>>
          /\ ingested = FALSE
       \/ \E file \in OldFiles :
             \E resp \in ConformingDocResponses(Len(process_pdf(file, CHUNK_SIZE).chunks)) :
                LET r == process_document(impl, file, resp, <<>>, <<>>, <<>>) IN
                /\ r.ok
                /\ documents = r.documents
                /\ embeddings = r.embeddings
                /\ metadata = r.metadata
                /\ ingested = TRUE
    /\ result = [op |-> "none"]
    /\ calls = <<>>
    /\ threads = NoThreads
    /\ session = InitSession
    /\ served = NoneServed

\* process_document returning: the thread ends with the value returned
IngestReturns(th, value) ==
    /\ threads' = [threads EXCEPT !.ingest = [th EXCEPT !.pc = "done"]]
    /\ result' = [op |-> "process_document", chunks |-> th.chunks, value |-> value]
    /\ calls' = IF th.chunks = <<>> THEN <<>>
                ELSE <<Call("embed_documents", th.resp.kind, Len(th.resp.embeddings), <<>>)>>
    /\ ingested' = (ingested \/ value)

\* process_document up to the return of co.embed.  "before" keeps the store
\* the call found.
IngestEmbed(file, resp) ==
    LET loaded == process_pdf(file, CHUNK_SIZE)
        th == [pc |-> "assign_documents", name |-> file.name, chunks |-> loaded.chunks,
               resp |-> resp, before |-> store]
    IN /\ threads.ingest.pc = "idle"
       /\ UNCHANGED <<session, served>>
       /\ IF ~loaded.success \/ resp.kind = "raise"
          THEN IngestReturns([th EXCEPT !.chunks = IF loaded.success THEN @ ELSE <<>>],
                             FALSE)
          ELSE /\ threads' = [threads EXCEPT !.ingest = th]
               /\ UNCHANGED <<result, calls, ingested>>
       /\ UNCHANGED <<impl, documents, embeddings, metadata>>

\* self.documents = chunks
IngestAssignDocuments ==
    /\ threads.ingest.pc = "assign_documents"
    /\ UNCHANGED <<session, served>>
    /\ documents' = threads.ingest.chunks
    /\ threads' = [threads EXCEPT !.ingest.pc = "assign_embeddings"]
    /\ UNCHANGED <<impl, embeddings, metadata, result, calls, ingested>>

\* self.embeddings = response.embeddings
IngestAssignEmbeddings ==
    /\ threads.ingest.pc = "assign_embeddings"
    /\ UNCHANGED <<session, served>>
    /\ embeddings' = threads.ingest.resp.embeddings
    /\ threads' = [threads EXCEPT !.ingest.pc = "assign_metadata"]
    /\ UNCHANGED <<impl, documents, metadata, result, calls, ingested>>

\* self.metadata = [...], then return True
IngestAssignMetadata ==
    /\ threads.ingest.pc = "assign_metadata"
    /\ UNCHANGED <<session, served>>
    /\ metadata' = NewMetadata(threads.ingest.name, threads.ingest.chunks)
    /\ IngestReturns(threads.ingest, TRUE)
    /\ UNCHANGED <<impl, documents, embeddings>>

\* search returning: the thread ends with the results returned
SearchReturns(th, results) ==
    /\ threads' = [threads EXCEPT !.search = [th EXCEPT !.pc = "done", !.value = results]]
    /\ result' = [op |-> "search", top_k |-> TOP_K, value |-> results]
    /\ calls' = IF th.embedded
                THEN <<Call("embed_query", th.qresp.kind, Len(th.qresp.embeddings),
                            th.qresp.embeddings),
                       Returned(results)>>
                ELSE <<Returned(results)>>
    /\ UNCHANGED <<impl, documents, embeddings, metadata, ingested>>

\* search up to the return of co.embed for the query
SearchEmbed(qresp) ==
    LET th == [pc |-> "score", qresp |-> qresp, embedded |-> embeddings # <<>>,
               top |-> <<>>, i |-> 1, text |-> <<>>, results |-> <<>>, value |-> <<>>]
    IN /\ threads.search.pc = "idle"
       /\ UNCHANGED <<session, served>>
       /\ IF embeddings = <<>> \/ qresp.kind # "ok"
          THEN SearchReturns(th, <<>>)
          ELSE /\ threads' = [threads EXCEPT !.search = th]
               /\ UNCHANGED <<impl, documents, embeddings, metadata, result, calls,
                              ingested>>

\* the scoring loop over self.embeddings, the sort and the slice
SearchScore ==
    LET th == threads.search
        sims == Similarities(impl, th.qresp.embeddings[1], embeddings)
        top == SliceTo(SortSimilarities(
                   [i \in 1..Len(sims) |-> <<sims[i][1], sims[i][2].value>>]), TOP_K)
    IN /\ th.pc = "score"
       /\ UNCHANGED <<session, served>>
       /\ IF \E i \in 1..Len(sims) : sims[i][2].raised THEN SearchReturns(th, <<>>)
          ELSE IF top = <<>> THEN SearchReturns(th, <<>>)
          ELSE /\ threads' = [threads EXCEPT !.search =
                                 [th EXCEPT !.pc = "read_text", !.top = top]]
               /\ UNCHANGED <<impl, documents, embeddings, metadata, result, calls,
                              ingested>>

\* "text": self.documents[doc_idx] of the result being built
SearchReadText ==
    LET th == threads.search
        doc_idx == th.top[th.i][1]
    IN /\ th.pc = "read_text"
       /\ UNCHANGED <<session, served>>
       /\ IF doc_idx + 1 > Len(documents) THEN SearchReturns(th, <<>>)
          ELSE /\ threads' = [threads EXCEPT !.search =
                                 [th EXCEPT !.pc = "read_metadata",
                                            !.text = documents[doc_idx + 1]]]
               /\ UNCHANGED <<impl, documents, embeddings, metadata, result, calls,
                              ingested>>

\* "metadata": self.metadata[doc_idx], the append, and the return after the
\* last result
SearchReadMetadata ==
    LET th == threads.search
        doc_idx == th.top[th.i][1]
        results == Append(th.results,
                          [id |-> th.i, text |-> th.text, score |-> th.top[th.i][2],
                           metadata |-> metadata[doc_idx + 1]])
    IN /\ th.pc = "read_metadata"
       /\ UNCHANGED <<session, served>>
       /\ IF doc_idx + 1 > Len(metadata) THEN SearchReturns(th, <<>>)
          ELSE IF th.i = Len(th.top) THEN SearchReturns([th EXCEPT !.results = results],
                                                        results)
          ELSE /\ threads' = [threads EXCEPT !.search =
                                 [th EXCEPT !.pc = "read_text", !.i = @ + 1,
                                            !.results = results]]
               /\ UNCHANGED <<impl, documents, embeddings, metadata, result, calls,
                              ingested>>

IngestStart ==
    \E file \in NewFiles :
        \E resp \in ConformingDocResponses(Len(process_pdf(file, CHUNK_SIZE).chunks)) :
            IngestEmbed(file, resp)

SearchStart == \E qresp \in InterleaveQueryResponses : SearchEmbed(qresp)

NextInterleave ==
    \/ IngestStart
    \/ IngestAssignDocuments
    \/ IngestAssignEmbeddings
    \/ IngestAssignMetadata
    \/ SearchStart
    \/ SearchScore
    \/ SearchReadText
    \/ SearchReadMetadata

SpecInterleave == InitInterleave /\ [][NextInterleave]_vars

(***************************************************************************)
(* The frontend specification: main() of app.py, one action per script run *)
(* of the Streamlit session.  A script run is caused by one event (a file  *)
(* put in or taken out of the uploader, a text typed in or erased from the *)
(* question area, a button) or by the st.rerun() of the run before it; it  *)
(* goes through the sidebar, the processing handler, the question area and *)
(* the answer handler, and ends early where a button calls st.rerun().     *)
(* The frontend constructs the SimpleRAGSystem of simple_rag.py.           *)
(***************************************************************************)
\* the files a user uploads: one the PDF reader cannot read, a PDF of two
\* sentences
AppFiles ==
    {[kind |-> "unreadable", name |-> "a.pdf", pages |-> <<>>],
     [kind |-> "pdf", name |-> "b.pdf", pages |-> <<<<"a", ".", " ", "a", ".">>>>]}

\* co.embed for the question: raises, or returns a vector
AppQueryResponses ==
    {[kind |-> "raise", embeddings |-> <<>>],
     [kind |-> "ok", embeddings |-> <<<<0, 3, 4>>>>]}

\* co.chat: returns a text or raises
AppGenOutcomes == {"ok", "raise"}

\* the values the widgets hand to the script run an event causes: event is
\* "upload", "remove", "process", "sidebar_clear", "type", "erase",
\* "get_answer", "question_clear" or "rerun"
WithWidgets(s, event, file) ==
    [s EXCEPT !.rerun = FALSE,
              !.file_uploader = IF event = "upload" THEN file
                                ELSE IF event = "remove" THEN NoFile ELSE @,
              !.question_input = IF event = "type" THEN "q"
                                 ELSE IF event = "erase" THEN "" ELSE @]

\* "if uploaded_file is not None": the upload is saved to a temporary file
SaveUpload(s) ==
    IF s.file_uploader # NoFile THEN [s EXCEPT !.uploaded_file_path = s.file_uploader]
    ELSE s

\* the Process button
ClickProcess(s) == [s EXCEPT !.should_process = TRUE, !.rerun = TRUE]

\* the Clear button of the sidebar: the store of st.session_state.rag is not
\* among the things it resets
ClickSidebarClear(s) ==
    [s EXCEPT !.processed_files = <<>>, !.qa_history = <<>>,
              !.processing_complete = FALSE, !.current_answer = NoAnswer,
              !.current_sources = <<>>, !.should_process = FALSE,
              !.should_answer = FALSE, !.uploaded_file_path = NoFile,
              !.current_question = "", !.rerun = TRUE]

\* the processing handler runs in this script run
Processing(s) == s.should_process /\ s.uploaded_file_path # NoFile

\* AfterProcessing with processing_complete set whatever process_pdf returned
AfterProcessingAlways(s, success) ==
    [s EXCEPT !.processed_files =
                  IF success /\ \A i \in 1..Len(@) : @[i] # s.file_uploader.name
                  THEN Append(@, s.file_uploader.name) ELSE @,
              !.processing_complete = TRUE,
              !.should_process = FALSE]

\* the processing handler after process_pdf returned success
AfterProcessing(s, success) ==
    [s EXCEPT !.processed_files =
                  IF success /\ \A i \in 1..Len(@) : @[i] # s.file_uploader.name
                  THEN Append(@, s.file_uploader.name) ELSE @,
              !.processing_complete = IF success THEN TRUE ELSE @,
              !.should_process = FALSE]

\* the question area: current_question follows the text area
ReadQuestion(s) == [s EXCEPT !.current_question = s.question_input]

\* the Get Answer button with a question in the text area
ClickGetAnswer(s) == [s EXCEPT !.should_answer = TRUE, !.rerun = TRUE]

\* the Clear button of the question area
ClickQuestionClear(s) ==
    [s EXCEPT !.current_question = "", !.current_answer = NoAnswer,
              !.current_sources = <<>>, !.rerun = TRUE]

\* the answer handler runs in this script run
Answering(s) == s.should_answer /\ s.current_question # ""

\* the answer handler calls answer_question in this script run
Asking(s) == Answering(s) /\ s.processing_complete

\* AfterAnswering with a warning that leaves should_answer as it is
AfterAnsweringWarningOnly(s, value) ==
    IF ~s.processing_complete THEN s
    ELSE [s EXCEPT !.current_answer = value.answer,
                   !.current_sources = value.sources,
                   !.qa_history = Append(@, [question |-> s.current_question,
                                             sources_count |-> Len(value.sources)]),
                   !.should_answer = FALSE]

\* the answer handler: a warning before any document is processed, else the
\* answer is kept and an entry is added to the history
AfterAnswering(s, value) ==
    IF ~s.processing_complete THEN [s EXCEPT !.should_answer = FALSE]
    ELSE [s EXCEPT !.current_answer = value.answer,
                   !.current_sources = value.sources,
                   !.qa_history = Append(@, [question |-> s.current_question,
                                             sources_count |-> Len(value.sources)]),
                   !.should_answer = FALSE]

\* what the sidebar hands on when the processing handler did not run
NotProcessed(s, ended) ==
    [session |-> s, documents |-> documents, embeddings |-> embeddings,
     metadata |-> metadata, ended |-> ended, processed |-> FALSE, ok |-> FALSE,
     chunks |-> <<>>, calls |-> <<>>]

\* the processing handler: r is what rag.process_pdf did and returned
ProcessingHandler(s, r) ==
    [session |-> AfterProcessing(s, r.ok), ended |-> FALSE, processed |-> TRUE] @@ r

\* the sidebar of a script run: the uploader, and the processing handler
\* unless one of the two buttons ended the run before it
Sidebar(event, file, resp) ==
    LET s == SaveUpload(WithWidgets(session, event, file)) IN
    IF event \in {"process", "sidebar_clear"} THEN NotProcessed(s, TRUE)
    ELSE IF ~Processing(s) THEN NotProcessed(s, FALSE)
    ELSE ProcessingHandler(s, process_document(impl, s.uploaded_file_path, resp,
                                               documents, embeddings, metadata))

\* the two buttons of the question tab; a script run a button ends does not
\* reach the answer handler
QuestionButton(event, s) ==
    (event = "get_answer" /\ s.question_input # "") \/ event = "question_clear"

\* the answer handler: a is what rag.answer_question did and returned
AnswerHandler(s, a) ==
    [session |-> AfterAnswering(s, a.value), asked |-> s.processing_complete] @@ a

\* the question tab of a script run that came through the sidebar as p: the
\* text area, the two buttons, the answer handler
QuestionTab(event, p, qresp, gen) ==
    LET s == ReadQuestion(p.session)
        idle == [asked |-> FALSE, value |-> NoResults, calls |-> <<>>]
    IN IF event = "get_answer" /\ QuestionButton(event, s)
       THEN [session |-> ClickGetAnswer(s)] @@ idle
       ELSE IF event = "question_clear" THEN [session |-> ClickQuestionClear(s)] @@ idle
       ELSE IF ~Answering(s) THEN [session |-> s] @@ idle
       ELSE AnswerHandler(s, answer_question(impl, p.documents, p.embeddings,
                                             p.metadata, qresp, gen))

\* one script run of main(): p is the run through the sidebar, q through the
\* question tab
ScriptRunThrough(event, p, q) ==
    /\ session' = IF event = "process" THEN ClickProcess(p.session)
                  ELSE IF event = "sidebar_clear" THEN ClickSidebarClear(p.session)
                  ELSE q.session
    /\ documents' = p.documents
    /\ embeddings' = p.embeddings
    /\ metadata' = p.metadata
    /\ ingested' = (ingested \/ p.ok)
    /\ result' = IF ~p.ended /\ q.asked
                 THEN [op |-> "answer_question", value |-> q.value]
                 ELSE IF p.processed
                 THEN [op |-> "process_document", chunks |-> p.chunks, value |-> p.ok]
                 ELSE result
    /\ calls' = IF ~p.ended /\ q.asked THEN q.calls
                ELSE IF p.processed THEN p.calls ELSE calls
    /\ served' =
           [process_pdf |->
                IF event = "process" THEN 0
                ELSE served.process_pdf + (IF p.processed THEN 1 ELSE 0),
            answer_question |->
                IF event = "get_answer" /\ q.session.should_answer THEN 0
                ELSE served.answer_question + (IF ~p.ended /\ q.asked THEN 1 ELSE 0),
            qa_history |->
                IF event = "get_answer" /\ q.session.should_answer THEN 0
                ELSE IF p.ended THEN served.qa_history
                ELSE served.qa_history
                         + Len(q.session.qa_history) - Len(p.session.qa_history)]
    /\ UNCHANGED <<impl, threads>>

ScriptRun(event, file, resp, qresp, gen) ==
    \E p \in {Sidebar(event, file, resp)} :
        \E q \in {QuestionTab(event, p, qresp, gen)} : ScriptRunThrough(event, p, q)

\* the provider behaviours a script run meets: drawn when the handler that
\* calls the provider is to run
Drawn(S, needed) == IF needed THEN S ELSE {CHOOSE x \in S : TRUE}

\* a script run caused by an event, the providers behaving in any way
Run(event, file) ==
    \E resp \in Drawn(SessionDocResponses, session.should_process),
       qresp \in Drawn(AppQueryResponses, session.should_answer),
       gen \in Drawn(AppGenOutcomes, session.should_answer) :
        ScriptRun(event, file, resp, qresp, gen)

\* the user acts when no st.rerun() is to be served
AppUpload == ~session.rerun /\ \E file \in AppFiles : Run("upload", file)

AppRemoveFile == ~session.rerun /\ session.file_uploader # NoFile /\ Run("remove", NoFile)

\* the two sidebar buttons are drawn while the uploader holds a file
AppClickProcess ==
    ~session.rerun /\ session.file_uploader # NoFile /\ Run("process", NoFile)

AppClickSidebarClear ==
    ~session.rerun /\ session.file_uploader # NoFile /\ Run("sidebar_clear", NoFile)

AppTypeQuestion == ~session.rerun /\ Run("type", NoFile)

AppEraseQuestion == ~session.rerun /\ session.question_input # "" /\ Run("erase", NoFile)

AppClickGetAnswer ==
    /\ ~session.rerun
    /\ Len(session.qa_history) < MaxHistory
    /\ Run("get_answer", NoFile)

AppClickQuestionClear == ~session.rerun /\ Run("question_clear", NoFile)

\* the script run st.rerun() asked for
AppRerun == session.rerun /\ Run("rerun", NoFile)

InitApp == Init /\ impl = "simple_rag"

NextApp ==
    \/ AppUpload
    \/ AppRemoveFile
    \/ AppClickProcess
    \/ AppClickSidebarClear
    \/ AppTypeQuestion
    \/ AppEraseQuestion
    \/ AppClickGetAnswer
    \/ AppClickQuestionClear
    \/ AppRerun

SpecApp == InitApp /\ [][NextApp]_vars

(***************************************************************************)
(* Claims                                                                  *)
(***************************************************************************)
IsIngest(r) == r.op = "process_document"

IsAnswer(r) == r.op = "answer_question"

IsSearch(r) == r.op = "search"

\* the entries of the call log for one call name
CallsOf(name) == {i \in 1..Len(calls) : calls[i].call = name}

\* C1: an ingest that fails (process_document returns False), for whatever
\* reason, leaves documents, embeddings and metadata exactly as they were.
C1_FailedIngestKeepsStore ==
    [][(IsIngest(result') /\ result'.value = FALSE) => store' = store]_vars

\* C2: in every state the three lists have the same length and
\* metadata[i].chunk_id is i.
C2_StoreAligned ==
    /\ Len(documents) = Len(embeddings)
    /\ Len(embeddings) = Len(metadata)
    /\ \A i \in 1..Len(metadata) : metadata[i].chunk_id = i - 1

\* C3: an answer in a session in which no ingest has succeeded has status
\* no_documents, no sources, and makes no provider call.
C3_AnswerBeforeIngest ==
    (IsAnswer(result) /\ ~ingested) =>
        /\ result.value.status = "no_documents"
        /\ result.value.sources = <<>>
        /\ CallsOf("embed_query") = {}
        /\ CallsOf("generate") = {}

\* the fallback text the claim describes: the first min(3, n) sources, each
\* with its score and the first 200 characters of its text
C4_ExpectedParts(sources) ==
    [i \in 1..Min(3, Len(sources)) |->
        [source |-> i, score |-> sources[i].score,
         text |-> SubSeq(sources[i].text, 1, Min(200, Len(sources[i].text)))]]

\* C4: when the generation call raises, the answer has status fallback, its
\* text is built from the first min(3, n) sources, and the provider's error
\* is not in it.
C4_GenerationFailureFallsBack ==
    (IsAnswer(result) /\ \E i \in CallsOf("generate") : calls[i].kind = "raise") =>
        /\ result.value.status = "fallback"
        /\ result.value.answer.kind = "fallback"
        /\ result.value.answer.parts = C4_ExpectedParts(result.value.sources)

\* the chunk ids and the scores of a result list, in output order
ChunkIds(results) == [i \in 1..Len(results) |-> results[i].metadata.chunk_id]

Scores(results) == [i \in 1..Len(results) |-> results[i].score]

\* C5: the results of search are in descending order of score, and results
\* of equal score are in ascending order of chunk id.
C5_RankOrder ==
    IsSearch(result) =>
        \A i, j \in 1..Len(result.value) :
            i < j =>
                \/ result.value[i].score > result.value[j].score
                \/ /\ result.value[i].score = result.value[j].score
                   /\ result.value[i].metadata.chunk_id
                          < result.value[j].metadata.chunk_id

\* C5's example: stored (1,0,0), (0,1,0), (0,0,1), query (1,0,0), top_k 3
C5_OrthonormalExample ==
    /\ IsSearch(result)
    /\ result.top_k = 3
    /\ embeddings = <<<<1, 0, 0>>, <<0, 1, 0>>, <<0, 0, 1>>>>
    /\ Len(documents) = 3
    /\ \E i \in CallsOf("embed_query") : calls[i].vec = <<<<1, 0, 0>>>>
    /\ ChunkIds(result.value) = <<0, 1, 2>>
    /\ Scores(result.value) = <<100, 0, 0>>

\* C6 as stated: search returns exactly min(top_k, n) results for every
\* integer top_k, n the number of stored chunks, with ids 1, 2, ...
C6_ExactlyMinTopK ==
    IsSearch(result) =>
        /\ Len(result.value) = Min(result.top_k, Len(documents))
        /\ \A i \in 1..Len(result.value) : result.value[i].id = i

\* the length of similarities[:top_k]
C6_SliceLen(m, top_k) == IF top_k >= 0 THEN Min(top_k, m) ELSE Max(0, m + top_k)

\* the query embedding was obtained and every stored vector can be scored
\* against it and indexed in documents and metadata
C6_Ranked ==
    /\ \E i \in CallsOf("embed_query") :
          /\ calls[i].kind = "ok"
          /\ calls[i].n > 0
          /\ impl = "rag_simple" =>
                \A e \in 1..Len(embeddings) : Len(embeddings[e]) = Len(calls[i].vec[1])
    /\ Len(embeddings) <= Len(documents)
    /\ Len(embeddings) <= Len(metadata)

\* C6 amended: the ids are 1, 2, ... in output order; the result is empty or
\* has the length of similarities[:top_k], and it has that length whenever
\* the store is empty or the ranking ran to its end -- so min(top_k, n) for
\* top_k >= 0 on a store of n aligned entries.
C6_SearchLength ==
    IsSearch(result) =>
        /\ \A i \in 1..Len(result.value) : result.value[i].id = i
        /\ Len(result.value) \in {0, C6_SliceLen(Len(embeddings), result.top_k)}
        /\ (embeddings = <<>> \/ C6_Ranked) =>
              Len(result.value) = C6_SliceLen(Len(embeddings), result.top_k)
        /\ (C6_Ranked /\ result.top_k >= 0 /\ Len(embeddings) = Len(documents)) =>
              Len(result.value) = Min(result.top_k, Len(documents))

\* top_k 2 on three chunks: two results, the first of them not chunk 0
C6_TopTwoOfThree ==
    /\ IsSearch(result)
    /\ result.top_k = 2
    /\ Len(documents) = 3
    /\ Len(embeddings) = 3
    /\ Len(result.value) = 2
    /\ result.value[1].id = 1
    /\ result.value[1].metadata.chunk_id = 2

\* C7: ingesting a PDF whose text is empty after whitespace normalization
\* gives no chunks, fails, calls no provider and leaves the store as it was.
C7_EmptyTextFailsIngest ==
    [][\A file \in Files, resp \in SessionDocResponses :
          (/\ file.kind = "pdf"
           /\ CleanText(JoinPages(file.pages)) = <<>>
           /\ ProcessDocumentWith(file, resp))
          => /\ result'.chunks = <<>>
             /\ result'.value = FALSE
             /\ calls' = <<>>
             /\ store' = store]_vars

\* C8: an ingest whose embedding response holds a number of vectors other
\* than the number of chunks reports failure and leaves the store as it was.
C8_VectorCountMismatchFails ==
    [][(/\ IsIngest(result')
        /\ \E i \in 1..Len(calls') :
              /\ calls'[i].call = "embed_documents"
              /\ calls'[i].kind = "ok"
              /\ calls'[i].n # Len(result'.chunks))
       => (result'.value = FALSE /\ store' = store)]_vars

\* C9: an answer on a non-empty store during which a provider call raised
\* has status fallback or error.
C9_RemoteFailureStatus ==
    (/\ IsAnswer(result)
     /\ documents # <<>>
     /\ \E i \in 1..Len(calls) : calls[i].kind = "raise")
    => result.value.status \in {"fallback", "error"}

\* C10: an answer during which search returned no result has status
\* no_results, no sources, and makes no generation call.
C10_NoResultsNoGeneration ==
    (IsAnswer(result) /\ \E i \in CallsOf("search") : calls[i].n = 0) =>
        /\ result.value.status = "no_results"
        /\ result.value.sources = <<>>
        /\ CallsOf("generate") = {}

\* search ran on stored embeddings (the query embedding was asked for) and
\* came back empty
C10_SearchCameBackEmpty ==
    /\ IsAnswer(result)
    /\ embeddings # <<>>
    /\ CallsOf("embed_query") # {}
    /\ \E i \in CallsOf("search") : calls[i].n = 0
    /\ result.value.status = "no_results"

\* the embedding call of the ingest just made returned without raising
EmbeddingCallReturned(cs) ==
    \E i \in 1..Len(cs) : cs[i].call = "embed_documents" /\ cs[i].kind # "raise"

\* C11: the store changes to a non-empty one only in an ingest in which the
\* chunker gave at least one chunk and the embedding call succeeded, and
\* after every such ingest the store holds that document's chunks in chunker
\* order, the vectors of that call, and metadata of that document only.
C11_ReplaceOnlyBySuccessfulIngest ==
    [][/\ (store' # store /\ store' # <<<<>>, <<>>, <<>>>>) =>
             /\ IsIngest(result')
             /\ result'.chunks # <<>>
             /\ result'.value = TRUE
       /\ (IsIngest(result') /\ result'.chunks # <<>> /\ EmbeddingCallReturned(calls')) =>
             /\ documents' = result'.chunks
             /\ \E i \in 1..Len(calls') :
                   calls'[i].call = "embed_documents" /\ Len(embeddings') = calls'[i].n
             /\ Len(metadata') = Len(result'.chunks)
             /\ \A i, j \in 1..Len(metadata') : metadata'[i].source = metadata'[j].source
      ]_vars

IsLoadPdf(r) == r.op = "load_pdf"

\* the sentences of a list of chunks, in order
RECURSIVE SentencesOfChunks(_)
SentencesOfChunks(chunks) ==
    IF chunks = <<>> THEN <<>>
    ELSE SplitSentences(Head(chunks)) \o SentencesOfChunks(Tail(chunks))

\* C12: every chunk load_pdf gives is at most chunk_size long or is one
\* whole sentence of the text that is longer than chunk_size.
C12_ChunkWithinSizeOrOneSentence ==
    IsLoadPdf(result) =>
        LET sentences == SplitSentences(result.text) IN
        \A c \in 1..Len(result.value) :
            \/ Len(result.value[c]) <= result.chunk_size
            \/ /\ Len(result.value[c]) > result.chunk_size
               /\ \E s \in 1..Len(sentences) : sentences[s] = result.value[c]

\* a text of three sentences cut into a chunk within chunk_size and a chunk
\* that is one sentence longer than chunk_size
C12_LongSentenceOwnChunk ==
    /\ IsLoadPdf(result)
    /\ result.chunk_size = 2
    /\ result.text = <<".", " ", "a", "a", ".">>
    /\ result.value = <<<<".">>, <<"a", "a", ".">>>>

\* C13: for a non-empty normalized text, the sentences of the chunks, chunk
\* after chunk, are the sentences of the text, and the chunks joined with
\* single spaces are the text.
C13_ChunksPartitionText ==
    (IsLoadPdf(result) /\ result.text # <<>>) =>
        /\ SentencesOfChunks(result.value) = SplitSentences(result.text)
        /\ JoinWords(result.value) = result.text

\* three sentences, the first two in one chunk and the third in the next
C13_TwoChunksThreeSentences ==
    /\ IsLoadPdf(result)
    /\ result.text = <<".", " ", ".", " ", ".">>
    /\ result.chunk_size = 4
    /\ result.value = <<<<".", " ", ".">>, <<".">>>>

\* C16: the value a failed ingest returns tells the kind of failure: an
\* ingest that fails because the chunker gave nothing returns a value
\* different from the one an ingest returns, from the same state, when it
\* fails in the embedding call.
C16_FailureKindReported ==
    [][\A file \in Files, resp \in SessionDocResponses :
          LET other == process_document(impl, file, resp, documents, embeddings,
                                        metadata)
          IN (/\ IsIngest(result')
              /\ result'.value = FALSE
              /\ result'.chunks = <<>>
              /\ other.ok = FALSE
              /\ other.chunks # <<>>
              /\ \E i \in 1..Len(other.calls) : other.calls[i].kind = "raise")
             => other.ok # result'.value]_vars

IsQueryOp(r) == r.op \in {"answer_question", "query", "search", "get_stats"}

\* C17: answer_question, query, search and get_stats leave documents,
\* embeddings and metadata as they were, in every state and for every
\* outcome of the providers.
C17_QueryingLeavesStore ==
    [][IsQueryOp(result') => store' = store]_vars

\* an answer on a loaded store during which the generation call raised
C17_AnswerOnLoadedStore ==
    /\ IsAnswer(result)
    /\ documents # <<>>
    /\ embeddings # <<>>
    /\ metadata # <<>>
    /\ \E i \in CallsOf("generate") : calls[i].kind = "raise"

\* the query vector search obtained, as a one-element set
QueryVectors ==
    {calls[i].vec[1] : i \in {j \in CallsOf("embed_query") : calls[j].n > 0}}

\* _cosine_similarity on every pair of a query vector and a stored vector of
\* which one has norm zero, in both classes
ZeroNormPairsGiveZero ==
    \A which \in Impls, vec1 \in RankQueryVecs, vec2 \in Vec :
        (/\ Norm(vec1) = 0 \/ Norm(vec2) = 0
         /\ which = "simple_rag" \/ Len(vec1) = Len(vec2))
        => cosine_similarity(which, vec1, vec2) = [raised |-> FALSE, value |-> 0]

\* C18: _cosine_similarity returns exactly 0, without raising, when the
\* query vector or the stored vector has norm zero (a zero vector against
\* itself included), and a result of search whose stored vector or query
\* vector has norm zero has score 0 and stands where the ordering puts a
\* score of 0.  (rag_simple.py's version is only defined on two vectors of
\* one dimension; simple_rag.py's returns 0 for any two.)
C18_ZeroNormScoresZero ==
    /\ ZeroNormPairsGiveZero
    /\ IsSearch(result) =>
          \A i \in 1..Len(result.value), q \in QueryVectors :
              LET stored == embeddings[result.value[i].metadata.chunk_id + 1] IN
              (Norm(q) = 0 \/ Norm(stored) = 0) =>
                  /\ result.value[i].score = 0
                  /\ \A j \in 1..Len(result.value) :
                        /\ j < i => result.value[j].score >= 0
                        /\ j > i => result.value[j].score <= 0

\* a stored zero vector ranked after the chunk that matches the query and
\* before the later chunk of the same score 0
C18_ZeroVectorRanked ==
    /\ IsSearch(result)
    /\ result.top_k = 3
    /\ embeddings = <<<<0, 0, 0>>, <<0, 3, 4>>, <<1, 0, 0>>>>
    /\ QueryVectors = {<<0, 3, 4>>}
    /\ ChunkIds(result.value) = <<1, 0, 2>>
    /\ Scores(result.value) = <<100, 0, 0>>

\* C19: an answer on a non-empty store makes exactly one query embedding
\* call, then ranks, then makes at most one generation call; no provider is
\* called a second time in the same answer.
C19_ProviderCallOrder ==
    (IsAnswer(result) /\ documents # <<>>) =>
        /\ Cardinality(CallsOf("embed_query")) = 1
        /\ Cardinality(CallsOf("search")) = 1
        /\ Cardinality(CallsOf("generate")) <= 1
        /\ \A e \in CallsOf("embed_query"), s \in CallsOf("search") : e < s
        /\ \A s \in CallsOf("search"), g \in CallsOf("generate") : s < g

\* the store the ingest call found, and the one it leaves when it succeeds
SnapshotBefore ==
    IF threads.ingest.pc = "idle" THEN store ELSE threads.ingest.before

SnapshotAfter ==
    LET th == threads.ingest IN
    IF th.pc = "idle" THEN store
    ELSE IF th.chunks = <<>> \/ th.resp.kind # "ok" THEN th.before
    ELSE <<th.chunks, th.resp.embeddings, NewMetadata(th.name, th.chunks)>>

\* what search returns on a snapshot for the query response the call got
SearchOn(snapshot) ==
    search(impl, snapshot[1], snapshot[2], snapshot[3], threads.search.qresp,
           TOP_K).results

\* C14: a search that runs while an ingest runs returns what it would return
\* on the complete store before the ingest or on the complete store after it.
C14_SearchSeesOneSnapshot ==
    threads.search.pc = "done" =>
        threads.search.value \in {SearchOn(SnapshotBefore), SearchOn(SnapshotAfter)}

\* C15: after the Clear button of the sidebar the store is empty, and an
\* answer asked of the object then, whatever the providers do, has status
\* no_documents.
C15_ClearDiscardsStore ==
    [][AppClickSidebarClear =>
          /\ documents' = <<>>
          /\ embeddings' = <<>>
          /\ metadata' = <<>>
          /\ \A qresp \in AppQueryResponses, gen \in AppGenOutcomes :
                answer_question(impl, documents', embeddings', metadata', qresp,
                                gen).value.status = "no_documents"]_vars

\* C20: whenever processing_complete is True some process_pdf call has
\* returned True and documents holds at least one chunk, and no answer the
\* frontend asks for comes back with status no_documents.
C20_CompleteImpliesStore ==
    /\ session.processing_complete => (ingested /\ documents # <<>>)
    /\ IsAnswer(result) => result.value.status # "no_documents"

\* a question answered through the frontend after a later upload failed to
\* process
C20_AnsweredAfterFailedUpload ==
    /\ session.processing_complete
    /\ session.file_uploader.kind = "unreadable"
    /\ IsAnswer(result)
    /\ session.qa_history # <<>>
    /\ session.current_answer # NoAnswer

\* C21: the script run that meets a request flag leaves it False, whatever
\* its handler came to (success, reported failure, the warning that no
\* document is processed), and a flag is set only while the st.rerun() of its
\* click is to be served; so the backend calls and the history entries
\* counted since the last click of a button never exceed one process_pdf
\* call, one answer_question call and one qa_history entry, and none is
\* added by a script run that did not meet the flag set.
C21_ClickServedOnce ==
    [][/\ session.should_process => ~session'.should_process
       /\ session.should_answer => ~session'.should_answer
       /\ (session'.should_process \/ session'.should_answer) => session'.rerun
       /\ served'.process_pdf <= 1
       /\ served'.answer_question <= 1
       /\ served'.qa_history <= 1
       /\ served'.process_pdf > served.process_pdf => session.should_process
       /\ served'.answer_question > served.answer_question => session.should_answer
       /\ Len(session'.qa_history) > Len(session.qa_history) =>
              /\ session.should_answer
              /\ Len(session'.qa_history) = Len(session.qa_history) + 1]_vars

\* both buttons have been clicked and served, Get Answer twice, and a later
\* script run has gone by with the flags down: the last click of each button
\* stands at one backend call and the last Get Answer at one history entry
C21_ClicksServed ==
    /\ served = [process_pdf |-> 1, answer_question |-> 1, qa_history |-> 1]
    /\ Len(session.qa_history) = 2
    /\ session.current_answer = NoAnswer
    /\ ~session.should_process
    /\ ~session.should_answer
    /\ ~session.rerun

====
